---------------------------- MODULE Spec2Model ----------------------------
(***************************************************************************)
(* State-machine model of fetch_nwo_data.py: the paginated project fetch,  *)
(* the collaboration aggregation (identity resolution, institution index,  *)
(* pair counts), the registry lookups and the assembly of the output       *)
(* document.                                                               *)
(*                                                                         *)
(* Python strings are sequences of one-character strings, so that split,   *)
(* strip, "in", startswith, the f-string key format and the lexicographic  *)
(* order of sorted() are computed as Python computes them.  Python dicts   *)
(* are sequences of [k, v] entries in insertion order.                     *)
(***************************************************************************)
EXTENDS Integers, Sequences, FiniteSets, TLC

VARIABLES
    pc,                     \* position in main()
    page,                   \* fetch_nwo_projects: next page number
    all_projects,           \* fetch_nwo_projects: accumulated projects
    fetch_log,              \* history of the page requests made so far
    projects,               \* main: the fetched project list
    idx,                    \* extract_collaborations: projects consumed
    institution_projects,   \* dict key_str -> list of project_info
    collaboration_pairs,    \* dict <<key1, key2>> -> dict scheme -> count
    funding_schemes,        \* set of funding schemes
    all_projects_list,      \* list of project_info
    projects_with_grant_id, \* counter of accepted projects
    org_name_institutions,  \* dict canonical name -> inst_info
    ror_ids,                \* main: registry ids to look up
    ror_i,                  \* fetch_ror_data: lookups done
    ror_institutions,       \* fetch_ror_data: dict ror_id -> institution
    all_institutions,       \* main: dict key_str -> institution
    output_file,            \* collaboration_data.json: <<>> or <<document>>
    rerun                   \* a second aggregation of the same project list

vars == <<pc, page, all_projects, fetch_log, projects, idx,
          institution_projects, collaboration_pairs, funding_schemes,
          all_projects_list, projects_with_grant_id, org_name_institutions,
          ror_ids, ror_i, ror_institutions, all_institutions, output_file,
          rerun>>

---------------------------------------------------------------------------
(* Python values *)

\* None where a string is expected: no character sequence equals it.
None == <<"None">>

\* None where a number is expected; a present number v is <<v>>.
NoNumber == <<>>

Some(v) == <<v>>

\* bool(s) of a string or None
Truthy(s) == s # None /\ s # <<>>

\* bool(v) of a number or None
TruthyNum(v) == v # NoNumber /\ v # Some(0)

Min(a, b) == IF a < b THEN a ELSE b

\* The printable ASCII characters in code-point order: 32..95 and 97..126.
AsciiLow ==
    << " ", "!", "\"", "#", "$", "%", "&", "'", "(", ")", "*", "+", ",", "-",
       ".", "/", "0", "1", "2", "3", "4", "5", "6", "7", "8", "9", ":", ";",
       "<", "=", ">", "?", "@", "A", "B", "C", "D", "E", "F", "G", "H", "I",
       "J", "K", "L", "M", "N", "O", "P", "Q", "R", "S", "T", "U", "V", "W",
       "X", "Y", "Z", "[", "\\", "]", "^", "_" >>

AsciiHigh ==
    << "a", "b", "c", "d", "e", "f", "g", "h", "i", "j", "k", "l", "m", "n",
       "o", "p", "q", "r", "s", "t", "u", "v", "w", "x", "y", "z", "{", "|",
       "}", "~" >>

\* the code points of the characters
CodePoints ==
    [c \in {"\t"} \cup {AsciiLow[i] : i \in 1..Len(AsciiLow)}
           \cup {AsciiHigh[i] : i \in 1..Len(AsciiHigh)} |->
        IF c = "\t" THEN 9
        ELSE IF \E i \in 1..Len(AsciiLow) : AsciiLow[i] = c
             THEN 31 + (CHOOSE i \in 1..Len(AsciiLow) : AsciiLow[i] = c)
             ELSE 96 + (CHOOSE i \in 1..Len(AsciiHigh) : AsciiHigh[i] = c)]

\* ord(c)
Ord(c) == CodePoints[c]

\* a < b on strings: lexicographic by code point
StrLess(a, b) ==
    \E i \in 1..(Min(Len(a), Len(b)) + 1) :
        /\ \A j \in 1..(i - 1) : a[j] = b[j]
        /\ \/ i = Len(a) + 1 /\ i <= Len(b)
           \/ i <= Len(a) /\ i <= Len(b) /\ Ord(a[i]) < Ord(b[i])

\* sub occurs in s at position i
OccursAt(sub, s, i) ==
    /\ i >= 1
    /\ i + Len(sub) - 1 <= Len(s)
    /\ \A j \in 1..Len(sub) : s[i + j - 1] = sub[j]

\* sub in s
Contains(sub, s) == \E i \in 1..(Len(s) + 1) : OccursAt(sub, s, i)

\* s.startswith(prefix)
StartsWith(s, prefix) == OccursAt(prefix, s, 1)

\* s.split(sep)[0]: the text before the first occurrence of sep
SplitFirst(s, sep) ==
    IF Contains(sep, s)
    THEN LET i == CHOOSE k \in 1..Len(s) :
                    /\ OccursAt(sep, s, k)
                    /\ \A m \in 1..(k - 1) : ~OccursAt(sep, s, m)
         IN  SubSeq(s, 1, i - 1)
    ELSE s

\* s.split(sep)[-1]: the text after the last occurrence of sep
SplitLast(s, sep) ==
    IF Contains(sep, s)
    THEN LET i == CHOOSE k \in 1..Len(s) :
                    /\ OccursAt(sep, s, k)
                    /\ \A m \in (k + 1)..Len(s) : ~OccursAt(sep, s, m)
         IN  SubSeq(s, i + Len(sep), Len(s))
    ELSE s

\* s.split(sep, 1)[1]: the text after the first occurrence of sep
SplitAfterFirst(s, sep) ==
    LET i == CHOOSE k \in 1..Len(s) :
                /\ OccursAt(sep, s, k)
                /\ \A m \in 1..(k - 1) : ~OccursAt(sep, s, m)
    IN  SubSeq(s, i + Len(sep), Len(s))

WhiteSpace == {" ", "\t"}

\* s.strip()
Strip(s) ==
    LET keep == {i \in 1..Len(s) : s[i] \notin WhiteSpace}
    IN  IF keep = {} THEN <<>>
        ELSE LET lo == CHOOSE i \in keep : \A j \in keep : i <= j
                 hi == CHOOSE i \in keep : \A j \in keep : j <= i
             IN  SubSeq(s, lo, hi)

---------------------------------------------------------------------------
(* Python dicts: sequences of [k, v] entries in insertion order *)

DictKeys(d) == [i \in 1..Len(d) |-> d[i].k]

DictHas(d, key) == \E i \in 1..Len(d) : d[i].k = key

DictGet(d, key) == d[CHOOSE i \in 1..Len(d) : d[i].k = key].v

\* d[key] = val
DictPut(d, key, val) ==
    IF DictHas(d, key)
    THEN [i \in 1..Len(d) |-> IF d[i].k = key THEN [k |-> key, v |-> val]
                                               ELSE d[i]]
    ELSE Append(d, [k |-> key, v |-> val])

\* the dict as a mapping, insertion order forgotten
DictAsSet(d) == {d[i] : i \in 1..Len(d)}

\* sum(d.values())
RECURSIVE SumValues(_)
SumValues(d) == IF d = <<>> THEN 0 ELSE d[1].v + SumValues(Tail(d))

---------------------------------------------------------------------------
(* String constants of the source *)

Colon == <<":">>

Dash == <<"-">>

RorFragment == <<"r","o","r",".","o","r","g","/">>

OrgDelimiter == <<"|","|">>

RorTag == <<"r","o","r">>

OrgTag == <<"o","r","g">>

OpenScienceNL == <<"O","p","e","n"," ","S","c","i","e","n","c","e"," ","N","L">>

Unknown == <<"U","n","k","n","o","w","n">>

Untitled == <<"U","n","t","i","t","l","e","d">>

TUDelft == <<"T","U"," ","D","e","l","f","t">>

TechnischeUniversiteitDelft ==
    <<"T","e","c","h","n","i","s","c","h","e"," ","U","n","i","v","e","r","s",
      "i","t","e","i","t"," ","D","e","l","f","t">>

DelftUniversityOfTechnology ==
    <<"D","e","l","f","t"," ","U","n","i","v","e","r","s","i","t","y"," ","o",
      "f"," ","T","e","c","h","n","o","l","o","g","y">>

SURF == <<"S","U","R","F">>

ErasmusMC == <<"E","r","a","s","m","u","s"," ","M","C">>

\* Entries of the lookup table: the three Delft variants, SURF, Erasmus MC.
\* Coordinates are in units of 1/10000 degree.
DelftInfo == [name |-> DelftUniversityOfTechnology,
              lat |-> Some(520024), lng |-> Some(43736)]

SurfInfo == [name |-> SURF, lat |-> Some(520894), lng |-> Some(51086)]

ErasmusMCInfo == [name |-> ErasmusMC, lat |-> Some(519225), lng |-> Some(44792)]

DUTCH_INSTITUTIONS ==
    << [k |-> TechnischeUniversiteitDelft, v |-> DelftInfo],
       [k |-> TUDelft, v |-> DelftInfo],
       [k |-> DelftUniversityOfTechnology, v |-> DelftInfo],
       [k |-> ErasmusMC, v |-> ErasmusMCInfo],
       [k |-> SURF, v |-> SurfInfo] >>

---------------------------------------------------------------------------
(* Identity resolution of one member record, lines 93-99 and 173-188.      *)
(* A member is [ror, rorId, institution_ror, organisation]; a field the    *)
(* record lacks (or holds null) is None.                                   *)

\* Mutant of normalize_org_name: the base name is not stripped.
normalize_unstripped(org_name) ==
    IF ~Truthy(org_name) THEN None ELSE SplitFirst(org_name, OrgDelimiter)

normalize_org_name(org_name) ==
    IF ~Truthy(org_name) THEN None
    ELSE Strip(SplitFirst(org_name, OrgDelimiter))

\* member.get("ror") or member.get("rorId") or member.get("institution_ror")
MemberRor(member) ==
    IF Truthy(member.ror) THEN member.ror
    ELSE IF Truthy(member.rorId) THEN member.rorId
    ELSE member.institution_ror

\* ror and ror != "-" and "ror.org/" in ror
RorAccepted(ror) == Truthy(ror) /\ ror # Dash /\ Contains(RorFragment, ror)

\* base_org and base_org in DUTCH_INSTITUTIONS
OrgFound(base_org) == Truthy(base_org) /\ DictHas(DUTCH_INSTITUTIONS, base_org)

\* The keys one member adds to institution_keys: one <<tag, value>> or none.
MemberKeys(member) ==
    LET ror == MemberRor(member)
        base_org == normalize_org_name(member.organisation)
    IN  IF RorAccepted(ror)
        THEN {<<RorTag, SplitLast(ror, RorFragment)>>}
        ELSE IF OrgFound(base_org)
             THEN {<<OrgTag, DictGet(DUTCH_INSTITUTIONS, base_org).name>>}
             ELSE {}

\* The inst_info one member records in org_name_institutions, if any.
MemberOrgInfo(member) ==
    LET ror == MemberRor(member)
        base_org == normalize_org_name(member.organisation)
    IN  IF ~RorAccepted(ror) /\ OrgFound(base_org)
        THEN {DictGet(DUTCH_INSTITUTIONS, base_org)}
        ELSE {}

\* f"{key[0]}:{key[1]}"
KeyStr(key) == key[1] \o Colon \o key[2]

---------------------------------------------------------------------------
(* extract_collaborations, lines 134-207: one iteration of the loop over   *)
(* the projects.  A project is [grant_id, project_id, title,               *)
(* funding_scheme, project_members, projectMembers]; a member list the     *)
(* record lacks is Absent, a present one is <<list>>.                      *)

Absent == <<>>

\* project_title[:60]
TitleLimit == 60

\* sorted(s) on strings: a stable insertion sort by StrLess
RECURSIVE InsertSorted(_, _)
InsertSorted(x, s) ==
    IF s = <<>> THEN <<x>>
    ELSE IF StrLess(x, s[1]) THEN <<x>> \o s
         ELSE <<s[1]>> \o InsertSorted(x, Tail(s))

RECURSIVE SortedStrings(_)
SortedStrings(s) ==
    IF s = <<>> THEN <<>>
    ELSE InsertSorted(s[Len(s)], SortedStrings(SubSeq(s, 1, Len(s) - 1)))

\* Mutant of Combinations2: only the pairs of neighbours of the list.
AdjacentPairs(s) == [j \in 1..(Len(s) - 1) |-> <<s[j], s[j + 1]>>]

\* itertools.combinations(s, 2)
RECURSIVE Combinations2(_)
Combinations2(s) ==
    IF Len(s) < 2 THEN <<>>
    ELSE [j \in 1..(Len(s) - 1) |-> <<s[1], s[j + 1]>>] \o Combinations2(Tail(s))

\* The orders in which a Python set with these elements may be iterated.
IterationOrders(S) ==
    {o \in [1..Cardinality(S) -> S] : \A i, j \in DOMAIN o : i # j => o[i] # o[j]}

\* lines 151-152
Identifier(project) ==
    IF Truthy(project.grant_id) /\ Truthy(Strip(project.grant_id))
    THEN Strip(project.grant_id)
    ELSE Strip(project.project_id)

\* line 167
Members(project) ==
    IF project.project_members # Absent THEN project.project_members[1]
    ELSE IF project.projectMembers # Absent THEN project.projectMembers[1]
    ELSE <<>>

\* line 161
ProjectInfo(project) ==
    LET project_title == IF project.title = None THEN Untitled ELSE project.title
    IN  [grant_id |-> Identifier(project),
         title |-> SubSeq(project_title, 1, Min(Len(project_title), TitleLimit)),
         funding_scheme |-> project.funding_scheme]

\* lines 170-187: the set institution_keys of a project
InstitutionKeys(project) ==
    LET members == Members(project)
    IN  UNION {MemberKeys(members[i]) : i \in 1..Len(members)}

\* line 188, over the members in order
RECURSIVE RecordOrgInfos(_, _)
RecordOrgInfos(dict, members) ==
    IF members = <<>> THEN dict
    ELSE LET infos == MemberOrgInfo(members[1])
             next == IF infos = {} THEN dict
                     ELSE LET info == CHOOSE x \in infos : TRUE
                          IN  DictPut(dict, info.name, info)
         IN  RecordOrgInfos(next, Tail(members))

\* Mutant of StoreOne: the project is appended without the identifier test.
StoreOneAlways(ip, key_str, project_info) ==
    DictPut(ip, key_str,
            Append(IF DictHas(ip, key_str) THEN DictGet(ip, key_str) ELSE <<>>,
                   project_info))

\* lines 193-194 for one key
StoreOne(ip, key_str, project_info) ==
    LET list == IF DictHas(ip, key_str) THEN DictGet(ip, key_str) ELSE <<>>
    IN  IF \E i \in 1..Len(list) : list[i].grant_id = project_info.grant_id
        THEN DictPut(ip, key_str, list)
        ELSE DictPut(ip, key_str, Append(list, project_info))

\* lines 191-194, over the keys in iteration order
RECURSIVE StoreProject(_, _, _)
StoreProject(ip, order, project_info) ==
    IF order = <<>> THEN ip
    ELSE StoreProject(StoreOne(ip, KeyStr(order[1]), project_info),
                      Tail(order), project_info)

\* line 200 for one pair: collaboration_pairs[pair][funding_scheme] += 1
IncrementPair(cp, pair, funding_scheme) ==
    LET counts == IF DictHas(cp, pair) THEN DictGet(cp, pair) ELSE <<>>
        n == IF DictHas(counts, funding_scheme)
             THEN DictGet(counts, funding_scheme) ELSE 0
    IN  DictPut(cp, pair, DictPut(counts, funding_scheme, n + 1))

RECURSIVE IncrementPairs(_, _, _)
IncrementPairs(cp, pairs, funding_scheme) ==
    IF pairs = <<>> THEN cp
    ELSE IncrementPairs(IncrementPair(cp, pairs[1], funding_scheme),
                        Tail(pairs), funding_scheme)

\* Mutant of SortedKeys: the key strings in iteration order, unsorted.
UnsortedKeys(order) == [i \in 1..Len(order) |-> KeyStr(order[i])]

\* line 198
SortedKeys(order) == SortedStrings([i \in 1..Len(order) |-> KeyStr(order[i])])

\* Mutant of CountPairs: the pairs are taken in iteration order, unsorted.
CountPairsUnsorted(cp, order, funding_scheme) ==
    IF Len(order) >= 2
    THEN IncrementPairs(cp, Combinations2([i \in 1..Len(order) |-> KeyStr(order[i])]),
                        funding_scheme)
    ELSE cp

\* lines 197-200
CountPairs(cp, order, funding_scheme) ==
    IF Len(order) >= 2
    THEN IncrementPairs(cp, Combinations2(SortedKeys(order)), funding_scheme)
    ELSE cp

\* The aggregation state before the first project, lines 138-144.
EmptyAggregation ==
    [institution_projects |-> <<>>,
     collaboration_pairs |-> <<>>,
     funding_schemes |-> {},
     all_projects_list |-> <<>>,
     projects_with_grant_id |-> 0,
     org_name_institutions |-> <<>>]

\* Lines 147-200 for one project, its key set iterated in the given order.
ExtractProject(st, project, order) ==
    IF ~Truthy(Identifier(project)) THEN st
    ELSE LET project_info == ProjectInfo(project)
         IN  [institution_projects |->
                  StoreProject(st.institution_projects, order, project_info),
              collaboration_pairs |->
                  CountPairs(st.collaboration_pairs, order,
                             project.funding_scheme),
              funding_schemes |->
                  st.funding_schemes \cup {project.funding_scheme},
              all_projects_list |-> Append(st.all_projects_list, project_info),
              projects_with_grant_id |-> st.projects_with_grant_id + 1,
              org_name_institutions |->
                  RecordOrgInfos(st.org_name_institutions, Members(project))]

---------------------------------------------------------------------------
(* Bounds of the model and the inputs drawn within them *)

\* most Open Science NL projects one run fetches
MaxProjects == 2

\* most pages one run requests
MaxPages == 2

\* pageSize of the request, line 110, and the short-page test, line 124
PageSize == 100

\* the slice [:50] of the ranked pairs, line 339
TopLinks == 50

CallA ==
    <<"O","p","e","n"," ","S","c","i","e","n","c","e"," ","N","L"," ","-"," ",
      "C","a","l","l"," ","A">>

CallB ==
    <<"O","p","e","n"," ","S","c","i","e","n","c","e"," ","N","L"," ","-"," ",
      "C","a","l","l"," ","B">>

Veni == <<"V","e","n","i">>

RorUrl01 == <<"h","t","t","p","s",":","/","/","r","o","r",".","o","r","g","/","0","1">>

RorUrl02 == <<"h","t","t","p","s",":","/","/","r","o","r",".","o","r","g","/","0","2">>

Member(ror, rorId, institution_ror, organisation) ==
    [ror |-> ror, rorId |-> rorId, institution_ror |-> institution_ror,
     organisation |-> organisation]

\* member records of the fetched projects
MemberX == Member(RorUrl01, None, None, <<"X">>)

MemberY == Member(None, RorUrl02, None, <<"Y","|","|","L","a","b">>)

MemberDelft ==
    Member(None, None, None,
           TUDelft \o OrgDelimiter
           \o <<"F","a","c","u","l","t","y"," ","o","f"," ","E","E","M","C","S">>)

MemberDelftNL == Member(Dash, None, None, <<" ">> \o TechnischeUniversiteitDelft)

MemberUnresolved == Member(None, None, None, <<"A","C","M","E">>)

Project(grant_id, project_id, funding_scheme, project_members, projectMembers) ==
    [grant_id |-> grant_id, project_id |-> project_id,
     title |-> <<"T">>, funding_scheme |-> funding_scheme,
     project_members |-> project_members, projectMembers |-> projectMembers]

\* The Open Science NL projects the provider may return.
ProjectCatalogue ==
    { Project(<<"1","0",".","1","/","a">>, <<"5","0","0",".","1">>, CallA,
              Some(<<MemberX, MemberY>>), Absent),
      Project(<<>>, <<"5","0","0",".","2">>, CallB,
              Some(<<MemberDelft, MemberY, MemberX>>), Absent),
      Project(<<" ","1","0",".","1","/","a"," ">>, <<"5","0","0",".","3">>, CallB,
              Absent, Some(<<MemberDelftNL, MemberY, MemberDelft>>)),
      Project(<<" ">>, <<>>, CallA, Some(<<MemberX, MemberY>>), Absent),
      Project(<<>>, <<"5","0","0",".","5">>, CallA,
              Some(<<MemberUnresolved>>), Absent) }

\* A project of another funding scheme, which the fetch filters out.
OtherProject ==
    Project(<<>>, <<"5","0","0",".","9">>, Veni, Some(<<MemberX>>), Absent)

SeqsUpTo(S, n) == UNION {[1..k -> S] : k \in 0..n}

\* A page of the provider: runs of [project, count], the Open Science NL
\* projects first and the projects of other schemes after them.
PageOf(items, others) ==
    [i \in 1..Len(items) |-> [project |-> items[i], count |-> 1]]
    \o (IF others > 0 THEN <<[project |-> OtherProject, count |-> others]>>
        ELSE <<>>)

\* The pages the provider may answer with when `room` more projects fit the
\* bound; a full page only while another page may be requested.
Pages(room, more) ==
    {PageOf(items, 0) : items \in SeqsUpTo(ProjectCatalogue, room)}
    \cup (IF more
          THEN {PageOf(items, PageSize - Len(items)) :
                    items \in SeqsUpTo(ProjectCatalogue, room)}
          ELSE {})

---------------------------------------------------------------------------
(* fetch_nwo_projects, lines 101-132 *)

RECURSIVE PageLen(_)
PageLen(pg) == IF pg = <<>> THEN 0 ELSE pg[1].count + PageLen(Tail(pg))

Repeat(x, n) == [i \in 1..n |-> x]

\* line 120: the projects of the page whose funding scheme starts with
\* "Open Science NL"
RECURSIVE OsProjects(_)
OsProjects(pg) ==
    IF pg = <<>> THEN <<>>
    ELSE (IF StartsWith(pg[1].project.funding_scheme, OpenScienceNL)
          THEN Repeat(pg[1].project, pg[1].count) ELSE <<>>)
         \o OsProjects(Tail(pg))

\* The loop's decision after a page request: "error" (the request raised),
\* "empty" (line 116), "short" (line 124) or "next" (another page follows).
PageOutcome(raised, pg) ==
    IF raised THEN "error"
    ELSE IF PageLen(pg) = 0 THEN "empty"
    ELSE IF PageLen(pg) < PageSize THEN "short"
    ELSE "next"

\* Mutant of Accumulate: a failed request discards the projects fetched so far.
AccumulateOrDiscard(acc, raised, pg) ==
    IF raised THEN <<>>
    ELSE IF PageLen(pg) = 0 THEN acc ELSE acc \o OsProjects(pg)

\* all_projects after the request
Accumulate(acc, raised, pg) ==
    IF raised \/ PageLen(pg) = 0 THEN acc ELSE acc \o OsProjects(pg)

\* page after the request
NextPage(p, raised, pg) == IF PageOutcome(raised, pg) = "next" THEN p + 1 ELSE p

---------------------------------------------------------------------------
(* fetch_ror_data, lines 209-269: the answer to one registry lookup.  A    *)
(* response is [raised, status_code, locations, names]; raised stands for  *)
(* a RequestException (a timeout, a connection failure).                   *)

RorResponse(raised, status_code, locations, names) ==
    [raised |-> raised, status_code |-> status_code,
     locations |-> locations, names |-> names]

Geo(lat, lng) ==
    [lat |-> lat, lng |-> lng, country_name |-> "Germany", country_code |-> "DE"]

DisplayNames == << [value |-> <<"L">>, types |-> {"label"}],
                   [value |-> <<"D">>, types |-> {"ror_display", "label"}] >>

LabelNames == << [value |-> <<"A">>, types |-> {"alias"}],
                 [value |-> <<"L">>, types |-> {"label"}] >>

\* The answers the registry may give to one lookup.
RorResponses ==
    { RorResponse(TRUE, 0, <<>>, <<>>),
      RorResponse(FALSE, 404, <<>>, <<>>),
      RorResponse(FALSE, 200, <<>>, LabelNames),
      RorResponse(FALSE, 200, <<Geo(Some(524), Some(134))>>, DisplayNames),
      RorResponse(FALSE, 200, <<Geo(Some(0), Some(134))>>, DisplayNames),
      RorResponse(FALSE, 200, <<Geo(NoNumber, Some(134))>>, DisplayNames),
      RorResponse(FALSE, 200, <<Geo(Some(524), NoNumber)>>, DisplayNames) }

\* the value of the first name whose types hold `type`, else "Unknown"
RECURSIVE FirstNameOfType(_, _)
FirstNameOfType(names, type) ==
    IF names = <<>> THEN Unknown
    ELSE IF type \in names[1].types THEN names[1].value
    ELSE FirstNameOfType(Tail(names), type)

\* lines 238-248
RorName(names) ==
    IF FirstNameOfType(names, "ror_display") # Unknown
    THEN FirstNameOfType(names, "ror_display")
    ELSE FirstNameOfType(names, "label")

\* lines 224-257: the institution built from a 200 response
RorInstitution(ror_id, resp) ==
    LET located == resp.locations # <<>>
        geo == resp.locations[1]
    IN  [name |-> RorName(resp.names),
         lat |-> IF located THEN geo.lat ELSE NoNumber,
         lng |-> IF located THEN geo.lng ELSE NoNumber,
         country |-> IF located THEN geo.country_name ELSE "Unknown",
         country_code |-> IF located THEN geo.country_code ELSE "",
         ror_id |-> ror_id]

\* institutions after the lookup of ror_id was answered with resp
RorLookup(institutions, ror_id, resp) ==
    IF ~resp.raised /\ resp.status_code = 200
    THEN DictPut(institutions, ror_id, RorInstitution(ror_id, resp))
    ELSE institutions

---------------------------------------------------------------------------
(* main, lines 288-363: assembly of the output document *)

\* lines 289-290
KeysWithTag(ip, tag) ==
    SelectSeq(DictKeys(ip), LAMBDA key : StartsWith(key, tag \o Colon))

\* line 293
RorIds(ip) ==
    LET ror_keys == KeysWithTag(ip, RorTag)
    IN  [i \in 1..Len(ror_keys) |-> SplitAfterFirst(ror_keys[i], Colon)]

\* lines 300-303
RECURSIVE AddRorInstitutions(_, _, _)
AddRorInstitutions(ai, ror_keys, ror_inst) ==
    IF ror_keys = <<>> THEN ai
    ELSE LET ror_id == SplitAfterFirst(ror_keys[1], Colon)
             next == IF DictHas(ror_inst, ror_id)
                     THEN DictPut(ai, ror_keys[1], DictGet(ror_inst, ror_id))
                     ELSE ai
         IN  AddRorInstitutions(next, Tail(ror_keys), ror_inst)

\* lines 306-317
RECURSIVE AddOrgInstitutions(_, _, _)
AddOrgInstitutions(ai, org_keys, org_inst) ==
    IF org_keys = <<>> THEN ai
    ELSE LET org_name == SplitAfterFirst(org_keys[1], Colon)
             inst == DictGet(org_inst, org_name)
             next == IF DictHas(org_inst, org_name)
                     THEN DictPut(ai, org_keys[1],
                                  [name |-> inst.name, lat |-> inst.lat,
                                   lng |-> inst.lng,
                                   country |-> "The Netherlands",
                                   country_code |-> "NL", ror_id |-> None])
                     ELSE ai
         IN  AddOrgInstitutions(next, Tail(org_keys), org_inst)

\* lines 297-317
AllInstitutions(ip, ror_inst, org_inst) ==
    AddOrgInstitutions(AddRorInstitutions(<<>>, KeysWithTag(ip, RorTag), ror_inst),
                       KeysWithTag(ip, OrgTag), org_inst)

\* Mutant of HasCoordinates: only the latitude is tested.
HasLatitude(inst) == inst.lat # NoNumber

\* line 324
HasCoordinates(inst) == inst.lat # NoNumber /\ inst.lng # NoNumber

\* line 343
LinkCoordinates(inst1, inst2) ==
    /\ TruthyNum(inst1.lat) /\ TruthyNum(inst1.lng)
    /\ TruthyNum(inst2.lat) /\ TruthyNum(inst2.lng)

\* Lines 320-334.  The field key is the institution key the record was
\* built for; the file does not hold it.
RECURSIVE OutputInstitutions(_, _)
OutputInstitutions(ip, ai) ==
    IF ip = <<>> THEN <<>>
    ELSE LET key == ip[1].k
             inst == DictGet(ai, key)
         IN  (IF DictHas(ai, key) /\ HasCoordinates(inst)
              THEN << [key |-> key, name |-> inst.name, lat |-> inst.lat,
                       lng |-> inst.lng, count |-> Len(ip[1].v),
                       projects |-> ip[1].v, country |-> inst.country,
                       country_code |-> inst.country_code,
                       ror_id |-> inst.ror_id] >>
              ELSE <<>>)
             \o OutputInstitutions(Tail(ip), ai)

\* sorted(items, key=lambda x: -sum(x[1].values())): stable, descending
RECURSIVE InsertByTotal(_, _)
InsertByTotal(x, s) ==
    IF s = <<>> THEN <<x>>
    ELSE IF SumValues(x.v) > SumValues(s[1].v) THEN <<x>> \o s
         ELSE <<s[1]>> \o InsertByTotal(x, Tail(s))

RECURSIVE SortedByTotal(_)
SortedByTotal(cp) ==
    IF cp = <<>> THEN <<>>
    ELSE InsertByTotal(cp[Len(cp)], SortedByTotal(SubSeq(cp, 1, Len(cp) - 1)))

\* line 339
SortedPairs(cp) ==
    LET ranked == SortedByTotal(cp)
    IN  SubSeq(ranked, 1, Min(Len(ranked), TopLinks))

\* Lines 340-349.  The fields source_key and target_key are the pair's
\* institution keys; the file does not hold them.
RECURSIVE OutputLinks(_, _)
OutputLinks(sorted_pairs, ai) ==
    IF sorted_pairs = <<>> THEN <<>>
    ELSE LET key1 == sorted_pairs[1].k[1]
             key2 == sorted_pairs[1].k[2]
             scheme_counts == sorted_pairs[1].v
             inst1 == DictGet(ai, key1)
             inst2 == DictGet(ai, key2)
         IN  (IF /\ DictHas(ai, key1) /\ DictHas(ai, key2)
                 /\ LinkCoordinates(inst1, inst2)
              THEN << [source_key |-> key1, target_key |-> key2,
                       source |-> [lat |-> inst1.lat, lng |-> inst1.lng,
                                   name |-> inst1.name],
                       target |-> [lat |-> inst2.lat, lng |-> inst2.lng,
                                   name |-> inst2.name],
                       count |-> SumValues(scheme_counts),
                       scheme_counts |-> scheme_counts] >>
              ELSE <<>>)
             \o OutputLinks(Tail(sorted_pairs), ai)

\* sorted(funding_schemes), line 207
RECURSIVE SortedSet(_)
SortedSet(S) ==
    IF S = {} THEN <<>>
    ELSE LET least == CHOOSE x \in S : \A y \in S \ {x} : StrLess(x, y)
         IN  <<least>> \o SortedSet(S \ {least})

\* lines 352-363
OutputDocument(ip, cp, schemes, projects_list, ai) ==
    LET institutions == OutputInstitutions(ip, ai)
        links == OutputLinks(SortedPairs(cp), ai)
    IN  [institutions |-> institutions,
         links |-> links,
         funding_schemes |-> SortedSet(schemes),
         all_projects |-> projects_list,
         metadata |-> [total_projects |-> Len(projects_list),
                       total_institutions |-> Len(institutions),
                       total_links |-> Len(links),
                       total_funding_schemes |-> Cardinality(schemes)]]

---------------------------------------------------------------------------
(* The run of main() *)

aggregation ==
    [institution_projects |-> institution_projects,
     collaboration_pairs |-> collaboration_pairs,
     funding_schemes |-> funding_schemes,
     all_projects_list |-> all_projects_list,
     projects_with_grant_id |-> projects_with_grant_id,
     org_name_institutions |-> org_name_institutions]

aggregation_vars ==
    <<institution_projects, collaboration_pairs, funding_schemes,
      all_projects_list, projects_with_grant_id, org_name_institutions>>

fetch_vars == <<page, all_projects, fetch_log, projects>>

output_vars == <<ror_ids, ror_i, ror_institutions, all_institutions, output_file>>

Init ==
    /\ pc = "fetch"
    /\ page = 1
    /\ all_projects = <<>>
    /\ fetch_log = <<>>
    /\ projects = <<>>
    /\ idx = 0
    /\ institution_projects = <<>>
    /\ collaboration_pairs = <<>>
    /\ funding_schemes = {}
    /\ all_projects_list = <<>>
    /\ projects_with_grant_id = 0
    /\ org_name_institutions = <<>>
    /\ ror_ids = <<>>
    /\ ror_i = 0
    /\ ror_institutions = <<>>
    /\ all_institutions = <<>>
    /\ output_file = <<>>
    /\ rerun = EmptyAggregation

\* One iteration of the loop of fetch_nwo_projects, lines 108-130, and the
\* return of line 132 when the loop ends.
FetchPage ==
    /\ pc = "fetch"
    /\ \E raised \in BOOLEAN,
          pg \in Pages(MaxProjects - Len(all_projects), page < MaxPages) :
          /\ raised => pg = <<>>
          /\ all_projects' = Accumulate(all_projects, raised, pg)
          /\ page' = NextPage(page, raised, pg)
          /\ fetch_log' = Append(fetch_log,
                                 [page |-> page, raised |-> raised,
                                  size |-> PageLen(pg),
                                  accepted |-> OsProjects(pg)])
          /\ IF PageOutcome(raised, pg) = "next"
             THEN pc' = "fetch" /\ projects' = projects
             ELSE pc' = "fetched" /\ projects' = all_projects'
    /\ UNCHANGED <<idx, aggregation_vars, output_vars, rerun>>

\* lines 275-277
NoProjects ==
    /\ pc = "fetched"
    /\ projects = <<>>
    /\ pc' = "done"
    /\ UNCHANGED <<fetch_vars, idx, aggregation_vars, output_vars, rerun>>

\* lines 279-282: extract_collaborations is entered
StartExtract ==
    /\ pc = "fetched"
    /\ projects # <<>>
    /\ pc' = "extract"
    /\ UNCHANGED <<fetch_vars, idx, aggregation_vars, output_vars, rerun>>

\* One iteration of the loop of extract_collaborations, lines 146-200.
ExtractStep ==
    /\ pc = "extract"
    /\ idx < Len(projects)
    /\ \E order \in IterationOrders(InstitutionKeys(projects[idx + 1])) :
          LET st == ExtractProject(aggregation, projects[idx + 1], order)
          IN  /\ institution_projects' = st.institution_projects
              /\ collaboration_pairs' = st.collaboration_pairs
              /\ funding_schemes' = st.funding_schemes
              /\ all_projects_list' = st.all_projects_list
              /\ projects_with_grant_id' = st.projects_with_grant_id
              /\ org_name_institutions' = st.org_name_institutions
    /\ idx' = idx + 1
    /\ UNCHANGED <<pc, fetch_vars, output_vars, rerun>>

\* lines 284-286
NoInstitutions ==
    /\ pc = "extract"
    /\ idx = Len(projects)
    /\ institution_projects = <<>>
    /\ pc' = "done"
    /\ UNCHANGED <<fetch_vars, idx, aggregation_vars, output_vars, rerun>>

\* lines 288-294: fetch_ror_data is entered
StartRor ==
    /\ pc = "extract"
    /\ idx = Len(projects)
    /\ institution_projects # <<>>
    /\ ror_ids' = RorIds(institution_projects)
    /\ pc' = "ror"
    /\ UNCHANGED <<fetch_vars, idx, aggregation_vars, ror_i, ror_institutions,
                   all_institutions, output_file, rerun>>

\* Mutant of FetchRor: a RequestException of a lookup ends the run.
FetchRorOrAbort ==
    /\ pc = "ror"
    /\ ror_i < Len(ror_ids)
    /\ \E resp \in RorResponses :
          /\ ror_institutions' = RorLookup(ror_institutions, ror_ids[ror_i + 1], resp)
          /\ pc' = IF resp.raised THEN "done" ELSE pc
    /\ ror_i' = ror_i + 1
    /\ UNCHANGED <<fetch_vars, idx, aggregation_vars, ror_ids,
                   all_institutions, output_file, rerun>>

\* One iteration of the loop of fetch_ror_data, lines 215-267.
FetchRor ==
    /\ pc = "ror"
    /\ ror_i < Len(ror_ids)
    /\ \E resp \in RorResponses :
          ror_institutions' = RorLookup(ror_institutions, ror_ids[ror_i + 1], resp)
    /\ ror_i' = ror_i + 1
    /\ UNCHANGED <<pc, fetch_vars, idx, aggregation_vars, ror_ids,
                   all_institutions, output_file, rerun>>

\* lines 296-366: the document is assembled and written
Assemble ==
    /\ pc = "ror"
    /\ ror_i = Len(ror_ids)
    /\ all_institutions' = AllInstitutions(institution_projects, ror_institutions,
                                           org_name_institutions)
    /\ output_file' = << OutputDocument(institution_projects, collaboration_pairs,
                                        funding_schemes, all_projects_list,
                                        all_institutions') >>
    /\ pc' = "done"
    /\ UNCHANGED <<fetch_vars, idx, aggregation_vars, ror_ids, ror_i,
                   ror_institutions, rerun>>

Next ==
    \/ FetchPage
    \/ NoProjects
    \/ StartExtract
    \/ ExtractStep
    \/ NoInstitutions
    \/ StartRor
    \/ FetchRor
    \/ Assemble

Spec == Init /\ [][Next]_vars

---------------------------------------------------------------------------
(* Properties of the aggregation *)

\* sum of all counters of the pair table
RECURSIVE TotalCount(_)
TotalCount(cp) ==
    IF cp = <<>> THEN 0 ELSE SumValues(cp[1].v) + TotalCount(Tail(cp))

\* sum over the pairs of the counter of one funding scheme
RECURSIVE SchemeCount(_, _)
SchemeCount(cp, scheme) ==
    IF cp = <<>> THEN 0
    ELSE (IF DictHas(cp[1].v, scheme) THEN DictGet(cp[1].v, scheme) ELSE 0)
         + SchemeCount(Tail(cp), scheme)

\* the binomial coefficient C(k, 2)
Choose2(k) == (k * (k - 1)) \div 2

\* the counter of one pair over all schemes, 0 for a pair not in the table
PairTotal(cp, pair) == IF DictHas(cp, pair) THEN SumValues(DictGet(cp, pair)) ELSE 0

\* C1: every step of the aggregation loop that accepts a project (one with a
\* usable identifier) raises the pair counters by C(k,2) in all, where k is
\* the number of distinct institution keys of the project's members (nothing
\* when k < 2); all of it goes to counters of the project's own funding
\* scheme, and no pair is raised by more than one.
C1_PairIncrements ==
    [][ (pc = "extract" /\ idx' = idx + 1 /\ Truthy(Identifier(projects[idx + 1])))
        => LET project == projects[idx + 1]
               k == Cardinality(InstitutionKeys(project))
               scheme == project.funding_scheme
           IN  /\ TotalCount(collaboration_pairs') =
                      TotalCount(collaboration_pairs) + Choose2(k)
               /\ SchemeCount(collaboration_pairs', scheme) =
                      SchemeCount(collaboration_pairs, scheme) + Choose2(k)
               /\ \A i \in 1..Len(collaboration_pairs') :
                      PairTotal(collaboration_pairs', collaboration_pairs'[i].k)
                      <= PairTotal(collaboration_pairs, collaboration_pairs'[i].k) + 1
      ]_vars

\* C1 witness: a project with three distinct institution keys was accepted
\* and the table holds its three pairs.
C1_Witness ==
    /\ pc = "extract"
    /\ idx > 0
    /\ Truthy(Identifier(projects[idx]))
    /\ Cardinality(InstitutionKeys(projects[idx])) = 3
    /\ Len(collaboration_pairs) = 3

\* C2: every entry of the collaboration table is keyed by two distinct key
\* strings, the first strictly before the second in lexicographic order, and
\* no two entries hold the same two institutions in either order.
C2_SortedPairKeys ==
    /\ \A i \in 1..Len(collaboration_pairs) :
          /\ Len(collaboration_pairs[i].k) = 2
          /\ StrLess(collaboration_pairs[i].k[1], collaboration_pairs[i].k[2])
    /\ \A i, j \in 1..Len(collaboration_pairs) :
          i # j => {collaboration_pairs[i].k[1], collaboration_pairs[i].k[2]}
                   # {collaboration_pairs[j].k[1], collaboration_pairs[j].k[2]}

\* C2 witness: two projects that list the same two institutions in opposite
\* member order were aggregated into one entry.
C2_Witness ==
    /\ idx = 2
    /\ \E a, b \in InstitutionKeys(projects[1]) \cap InstitutionKeys(projects[2]) :
          /\ StrLess(KeyStr(a), KeyStr(b))
          /\ PairTotal(collaboration_pairs, <<KeyStr(a), KeyStr(b)>>) = 2
          /\ \E m, n \in 1..Len(Members(projects[1])) :
                /\ m < n
                /\ MemberKeys(Members(projects[1])[m]) = {a}
                /\ MemberKeys(Members(projects[1])[n]) = {b}
          /\ \E m, n \in 1..Len(Members(projects[2])) :
                /\ m < n
                /\ MemberKeys(Members(projects[2])[m]) = {b}
                /\ MemberKeys(Members(projects[2])[n]) = {a}

\* project i of the fetched list was accepted and lists institution key_str
ListedAt(i, key_str) ==
    /\ Truthy(Identifier(projects[i]))
    /\ \E key \in InstitutionKeys(projects[i]) : KeyStr(key) = key_str

\* the first project of the fetched list with this identifier that lists
\* institution key_str
FirstListed(key_str, identifier) ==
    CHOOSE i \in 1..idx :
        /\ ListedAt(i, key_str) /\ Identifier(projects[i]) = identifier
        /\ \A j \in 1..(i - 1) :
              ~(ListedAt(j, key_str) /\ Identifier(projects[j]) = identifier)

\* C3: in the institution-project index no list holds two entries with the
\* same project identifier, and each list is in first-seen order: its
\* entries are the infos of the accepted projects listing the institution,
\* one per identifier, in the order of their first occurrence in the
\* fetched project list.
C3_IndexUniqueFirstSeen ==
    \A e \in 1..Len(institution_projects) :
        LET key_str == institution_projects[e].k
            list == institution_projects[e].v
        IN  /\ \A m, n \in 1..Len(list) :
                  m # n => list[m].grant_id # list[n].grant_id
            /\ \A i \in 1..idx :
                  ListedAt(i, key_str) =>
                      \E n \in 1..Len(list) :
                          list[n].grant_id = Identifier(projects[i])
            /\ \A n \in 1..Len(list) :
                  /\ \E i \in 1..idx :
                        ListedAt(i, key_str)
                        /\ Identifier(projects[i]) = list[n].grant_id
                  /\ list[n] = ProjectInfo(projects[FirstListed(key_str, list[n].grant_id)])
            /\ \A m, n \in 1..Len(list) :
                  m < n => FirstListed(key_str, list[m].grant_id)
                           < FirstListed(key_str, list[n].grant_id)

\* C3 witness: two accepted projects with the same identifier list a common
\* institution, and one of them names an institution on two member records.
C3_Witness ==
    /\ idx = 2
    /\ Truthy(Identifier(projects[1]))
    /\ Identifier(projects[1]) = Identifier(projects[2])
    /\ projects[1] # projects[2]
    /\ InstitutionKeys(projects[1]) \cap InstitutionKeys(projects[2]) # {}
    /\ \E m, n \in 1..Len(Members(projects[2])) :
          m # n /\ MemberKeys(Members(projects[2])[m]) # {}
                /\ MemberKeys(Members(projects[2])[m])
                   = MemberKeys(Members(projects[2])[n])

---------------------------------------------------------------------------
(* The run of main() up to the return of extract_collaborations *)

NextAggregate ==
    \/ FetchPage
    \/ NoProjects
    \/ StartExtract
    \/ ExtractStep

SpecAggregate == Init /\ [][NextAggregate]_vars

\* the projects accepted from the pages requested so far, in request order
RECURSIVE AcceptedSoFar(_)
AcceptedSoFar(log) ==
    IF log = <<>> THEN <<>>
    ELSE AcceptedSoFar(SubSeq(log, 1, Len(log) - 1))
         \o (IF log[Len(log)].raised THEN <<>> ELSE log[Len(log)].accepted)

\* a request after which the loop must stop: it failed, or its page was
\* empty or shorter than the page size
Stops(request) == request.raised \/ request.size < PageSize

\* C10: the pages are requested in increasing order from 1; every request
\* but the last returned a full page, and once the loop has ended the last
\* request is the first that failed or returned an empty or short page, so
\* no page is requested after a failure; the project list returned, which
\* the aggregation then consumes, is the projects accepted from all pages
\* that were answered, a failed last request discarding none of them.
C10_PaginationKeepsProgress ==
    /\ \A i \in 1..Len(fetch_log) : fetch_log[i].page = i
    /\ \A i \in 1..(Len(fetch_log) - 1) : ~Stops(fetch_log[i])
    /\ pc = "fetch" => /\ \A i \in 1..Len(fetch_log) : ~Stops(fetch_log[i])
                       /\ page = Len(fetch_log) + 1
                       /\ all_projects = AcceptedSoFar(fetch_log)
    /\ pc # "fetch" => /\ fetch_log # <<>>
                       /\ Stops(fetch_log[Len(fetch_log)])
                       /\ projects = AcceptedSoFar(fetch_log)

\* C10 witness: the second page request failed, and the projects of the
\* first page are being aggregated.
C10_Witness ==
    /\ pc = "extract"
    /\ idx = Len(projects)
    /\ Len(fetch_log) = 2
    /\ fetch_log[2].raised
    /\ fetch_log[1].accepted # <<>>
    /\ Len(all_projects_list) = Len(fetch_log[1].accepted)

---------------------------------------------------------------------------
(* Properties of the output document *)

\* the coordinates <<lat, lng>> resolved for an institution key: those of its
\* registry record, or of its lookup-table entry; none when the registry
\* lookup failed or the record has no location
ResolvedCoordinates(key_str) ==
    LET value == SplitAfterFirst(key_str, Colon)
        dict == IF StartsWith(key_str, RorTag \o Colon) THEN ror_institutions
                ELSE org_name_institutions
    IN  IF DictHas(dict, value)
        THEN <<DictGet(dict, value).lat, DictGet(dict, value).lng>>
        ELSE <<NoNumber, NoNumber>>

\* latitude or longitude is missing
LacksCoordinates(key_str) ==
    \/ ResolvedCoordinates(key_str)[1] = NoNumber
    \/ ResolvedCoordinates(key_str)[2] = NoNumber

\* C6: in the written document, no record of the institutions array and no
\* source or target of a record of the links array belongs to an institution
\* key that lacks resolved coordinates (failed lookup, no location, or a
\* null latitude or longitude), and every emitted record carries both
\* coordinates.
C6_NoCoordinatesNoOutput ==
    (pc = "done" /\ output_file # <<>>) =>
        LET doc == output_file[1]
        IN  /\ \A i \in 1..Len(doc.institutions) :
                  /\ ~LacksCoordinates(doc.institutions[i].key)
                  /\ doc.institutions[i].lat # NoNumber
                  /\ doc.institutions[i].lng # NoNumber
            /\ \A i \in 1..Len(doc.links) :
                  /\ ~LacksCoordinates(doc.links[i].source_key)
                  /\ ~LacksCoordinates(doc.links[i].target_key)
                  /\ doc.links[i].source.lat # NoNumber
                  /\ doc.links[i].source.lng # NoNumber
                  /\ doc.links[i].target.lat # NoNumber
                  /\ doc.links[i].target.lng # NoNumber

\* C6 witness: a document was written with an institution and a link in it,
\* while an institution that lacks coordinates is in the index and in a pair
\* of the table.
C6_Witness ==
    /\ pc = "done"
    /\ output_file # <<>>
    /\ output_file[1].institutions # <<>>
    /\ output_file[1].links # <<>>
    /\ \E e \in 1..Len(institution_projects) :
          /\ LacksCoordinates(institution_projects[e].k)
          /\ \E i \in 1..Len(collaboration_pairs) :
                institution_projects[e].k \in
                    {collaboration_pairs[i].k[1], collaboration_pairs[i].k[2]}

\* the [source_key, target_key, count, scheme_counts] of the ranked pairs
\* whose two endpoints both have resolved coordinates
RECURSIVE ResolvedLinks(_)
ResolvedLinks(ranked) ==
    IF ranked = <<>> THEN <<>>
    ELSE (IF ~LacksCoordinates(ranked[1].k[1]) /\ ~LacksCoordinates(ranked[1].k[2])
          THEN << [source_key |-> ranked[1].k[1], target_key |-> ranked[1].k[2],
                   count |-> SumValues(ranked[1].v),
                   scheme_counts |-> ranked[1].v] >>
          ELSE <<>>)
         \o ResolvedLinks(Tail(ranked))

\* C7: the links of the written document are exactly the pairs among the
\* first 50 of the ranking by total count (descending) whose two endpoints
\* both have resolved coordinates, each with count the sum of its
\* scheme_counts; so they are at most 50, in non-increasing order of count.
C7_LinkEmission ==
    (pc = "done" /\ output_file # <<>>) =>
        LET links == output_file[1].links
        IN  /\ [i \in 1..Len(links) |->
                   [source_key |-> links[i].source_key,
                    target_key |-> links[i].target_key,
                    count |-> links[i].count,
                    scheme_counts |-> links[i].scheme_counts]]
               = ResolvedLinks(SortedPairs(collaboration_pairs))
            /\ Len(links) <= TopLinks
            /\ \A i \in 1..Len(links) : links[i].count = SumValues(links[i].scheme_counts)
            /\ \A i, j \in 1..Len(links) : i < j => links[i].count >= links[j].count

\* C8: a run that has ended wrote no file exactly when the fetch yielded no
\* project or the aggregation no institution, whatever the registry answered
\* to the lookups; and no file is written before the run ends.
C8_FileWrittenUnlessEmpty ==
    /\ pc = "done" =>
          (output_file = <<>> <=> (projects = <<>> \/ institution_projects = <<>>))
    /\ pc # "done" => output_file = <<>>

\* C8 witness: every registry lookup of the run failed, by a non-200 status
\* or an exception, and the document was written.
C8_Witness ==
    /\ pc = "done"
    /\ Len(ror_ids) = 2
    /\ ror_institutions = <<>>
    /\ output_file # <<>>

---------------------------------------------------------------------------
(* Identity resolution: the aggregation of one project whose second member *)
(* record is drawn from the values below; its first member is a fixed      *)
(* record with a registry identifier no drawn record can resolve to.       *)

RorUrl03 == <<"h","t","t","p","s",":","/","/","r","o","r",".","o","r","g","/","0","3">>

RorUrl99 == <<"h","t","t","p","s",":","/","/","r","o","r",".","o","r","g","/","9","9">>

MemberAnchor == Member(RorUrl99, None, None, None)

AnchorKey == RorTag \o Colon \o <<"9","9">>

\* values of the field ror
RorValues ==
    { None, <<>>, Dash, <<"0","1">>, RorUrl01, RorFragment,
      RorUrl01 \o <<"/">> \o RorFragment \o <<"7">> }

\* values of the field rorId
RorIdValues == { None, Dash, <<"0","2">>, RorUrl02 }

\* values of the field institution_ror
InstitutionRorValues == { None, Dash, RorUrl03 }

\* values of the field organisation
OrganisationValues ==
    { None, <<>>, <<" ">>, <<"A","C","M","E">>,
      TUDelft,
      TUDelft \o OrgDelimiter
          \o <<"F","a","c","u","l","t","y"," ","o","f"," ","E","E","M","C","S">>,
      <<" ","\\t">> \o TUDelft \o <<" ">> \o OrgDelimiter \o SURF,
      <<"t","u"," ","d","e","l","f","t">>,
      OrgDelimiter \o TUDelft,
      TUDelft \o <<"|">> \o SURF,
      <<"T","U","D","e","l","f","t">>,
      TechnischeUniversiteitDelft \o <<" ">>,
      ErasmusMC \o OrgDelimiter \o OrgDelimiter,
      SURF \o <<" ">> \o ErasmusMC }

MemberInputs ==
    { Member(ror, rorId, institution_ror, organisation) :
        ror \in RorValues, rorId \in RorIdValues,
        institution_ror \in InstitutionRorValues,
        organisation \in OrganisationValues }

\* extract_collaborations is entered with one fetched project.
InitResolve ==
    /\ pc = "extract"
    /\ page = 1
    /\ \E member \in MemberInputs :
          projects = << Project(<<>>, <<"5","0","0",".","1">>, CallA,
                                Some(<<MemberAnchor, member>>), Absent) >>
    /\ all_projects = projects
    /\ fetch_log = << [page |-> 1, raised |-> FALSE, size |-> 1,
                       accepted |-> projects] >>
    /\ idx = 0
    /\ institution_projects = <<>>
    /\ collaboration_pairs = <<>>
    /\ funding_schemes = {}
    /\ all_projects_list = <<>>
    /\ projects_with_grant_id = 0
    /\ org_name_institutions = <<>>
    /\ ror_ids = <<>>
    /\ ror_i = 0
    /\ ror_institutions = <<>>
    /\ all_institutions = <<>>
    /\ output_file = <<>>
    /\ rerun = EmptyAggregation

SpecResolve == InitResolve /\ [][ExtractStep]_vars

\* the drawn member record of the project
DrawnMember == Members(projects[1])[2]

\* the values the member holds under the aliased registry fields
AliasValues(member) == {member.ror, member.rorId, member.institution_ror}

\* a registry identifier as the contract accepts it: present, not the
\* placeholder "-", holding the fragment "ror.org/"
AcceptableRor(value) ==
    /\ value # None
    /\ value # Dash
    /\ \E i \in 1..Len(value) : OccursAt(RorFragment, value, i)

\* the text after the fragment "ror.org/" at position i of value
AfterFragmentAt(value, i) == SubSeq(value, i + Len(RorFragment), Len(value))

\* the key strings of the institution index other than the fixed member's
ResolvedKeys ==
    {institution_projects[e].k : e \in 1..Len(institution_projects)} \ {AnchorKey}

\* C4: when some aliased field (ror, rorId, institution_ror) of the member
\* holds an acceptable registry identifier, the member's key is the registry
\* key of the text after the fragment in such a field, whatever the
\* organisation field holds, and the name lookup records nothing.
C4_RegistryPreferred ==
    (idx = 1 /\ \E value \in AliasValues(DrawnMember) : AcceptableRor(value)) =>
        /\ \E value \in AliasValues(DrawnMember) :
              /\ AcceptableRor(value)
              /\ \E i \in 1..Len(value) :
                    /\ OccursAt(RorFragment, value, i)
                    /\ ResolvedKeys
                       = {RorTag \o Colon \o AfterFragmentAt(value, i)}
        /\ org_name_institutions = <<>>

\* organisation names table variant `name`: leading whitespace, the name,
\* then whitespace up to the end or up to the first "||"
NamesVariant(organisation, name) ==
    /\ organisation # None
    /\ \E i \in 1..Len(organisation) :
          /\ OccursAt(name, organisation, i)
          /\ \A n \in 1..(i - 1) : organisation[n] \in WhiteSpace
          /\ \E t \in (i + Len(name))..(Len(organisation) + 1) :
                /\ \A n \in (i + Len(name))..(t - 1) : organisation[n] \in WhiteSpace
                /\ t = Len(organisation) + 1 \/ OccursAt(OrgDelimiter, organisation, t)

\* the entries of the lookup table whose name the organisation field names
NamedEntries(organisation) ==
    {e \in 1..Len(DUTCH_INSTITUTIONS) :
        NamesVariant(organisation, DUTCH_INSTITUTIONS[e].k)}

\* C5: for a member none of whose aliased fields holds an acceptable
\* registry identifier, the key is decided by the organisation field: when
\* its text before the first "||", trimmed, is a name of the lookup table
\* (compared case-sensitively), the key is the name key of the entry's
\* canonical display name, the project is listed under it, it is paired with
\* the other institution of the project, and the entry's metadata is
\* recorded; otherwise the member adds no key, no pair and no metadata.
C5_NameFallback ==
    (idx = 1 /\ \A value \in AliasValues(DrawnMember) : ~AcceptableRor(value)) =>
        LET named == NamedEntries(DrawnMember.organisation)
        IN  IF named # {}
            THEN \A e \in named :
                    LET info == DUTCH_INSTITUTIONS[e].v
                        key_str == OrgTag \o Colon \o info.name
                    IN  /\ ResolvedKeys = {key_str}
                        /\ DictGet(institution_projects, key_str)
                           = <<ProjectInfo(projects[1])>>
                        /\ org_name_institutions = <<[k |-> info.name, v |-> info]>>
                        /\ collaboration_pairs
                           = << [k |-> <<key_str, AnchorKey>>,
                                 v |-> <<[k |-> CallA, v |-> 1]>>] >>
            ELSE /\ ResolvedKeys = {}
                 /\ collaboration_pairs = <<>>
                 /\ org_name_institutions = <<>>

\* C5 witness: the member with organisation "TU Delft||Faculty of EEMCS" and
\* no registry identifier was resolved to Delft University of Technology
\* with coordinates 52.0024, 4.3736.
C5_Witness ==
    /\ idx = 1
    /\ DrawnMember =
          Member(None, None, None,
                 TUDelft \o OrgDelimiter
                 \o <<"F","a","c","u","l","t","y"," ","o","f"," ","E","E","M","C","S">>)
    /\ ResolvedKeys = {OrgTag \o Colon \o DelftUniversityOfTechnology}
    /\ org_name_institutions
       = << [k |-> DelftUniversityOfTechnology,
             v |-> [name |-> DelftUniversityOfTechnology,
                    lat |-> Some(520024), lng |-> Some(43736)]] >>

---------------------------------------------------------------------------
(* Determinism: the project list is aggregated twice, the two runs         *)
(* iterating the key set of a project each in an order of its own.         *)

\* an order in which the set may be iterated: the one the second run takes
ReferenceOrder(S) == CHOOSE o \in IterationOrders(S) : TRUE

\* One iteration of the loop of extract_collaborations in both runs: the
\* first run iterates the key set in any order, the second in the reference
\* order.  Runs that all agree with the second run agree with each other.
ExtractBoth ==
    /\ pc = "extract"
    /\ idx < Len(projects)
    /\ \E order \in IterationOrders(InstitutionKeys(projects[idx + 1])) :
          LET st == ExtractProject(aggregation, projects[idx + 1], order)
          IN  /\ institution_projects' = st.institution_projects
              /\ collaboration_pairs' = st.collaboration_pairs
              /\ funding_schemes' = st.funding_schemes
              /\ all_projects_list' = st.all_projects_list
              /\ projects_with_grant_id' = st.projects_with_grant_id
              /\ org_name_institutions' = st.org_name_institutions
    /\ rerun' = ExtractProject(rerun, projects[idx + 1],
                               ReferenceOrder(InstitutionKeys(projects[idx + 1])))
    /\ idx' = idx + 1
    /\ UNCHANGED <<pc, fetch_vars, output_vars>>

NextDet ==
    \/ FetchPage
    \/ NoProjects
    \/ StartExtract
    \/ ExtractBoth

SpecDet == Init /\ [][NextDet]_vars

---------------------------------------------------------------------------
\* Agreement of the pair table with the institution index

\* the project identifiers recorded for an institution in the index
IndexedIdentifiers(ip, key_str) ==
    IF DictHas(ip, key_str)
    THEN { DictGet(ip, key_str)[n].grant_id : n \in 1..Len(DictGet(ip, key_str)) }
    ELSE {}

\* the identifiers recorded for both institutions of a pair
SharedIdentifiers(ip, pair) ==
    IndexedIdentifiers(ip, pair[1]) \cap IndexedIdentifiers(ip, pair[2])

\* C11: after any number of projects has been processed, the total count of
\* every pair of the collaboration table (the sum over its funding schemes)
\* equals the number of project identifiers that appear in the project
\* lists of both institutions of the pair.
C11_PairsAgreeWithIndex ==
    \A i \in 1..Len(collaboration_pairs) :
        SumValues(collaboration_pairs[i].v)
        = Cardinality(SharedIdentifiers(institution_projects, collaboration_pairs[i].k))

===========================================================================
